---- MODULE Spec2Model ----
(***************************************************************************)
(* Flight booking manager (src/mthree_1.py): the Flight class, the         *)
(* Aircraft hierarchy and the create_flight importer.                      *)
(*                                                                         *)
(* Python strings are sequences of one-character strings, so that slicing, *)
(* formatting ("{}{}".format(row, letter)) and parsing (int(...)) are      *)
(* computed and not assumed.  An optional value is <<>> (None) or <<v>>.   *)
(***************************************************************************)
EXTENDS Integers, Sequences, FiniteSets, TLC

VARIABLES
  number, ctor,                         \* Flight.__init__: argument, outcome
  model, dept, dest, route,             \* Aircraft.flight_route: receiver, arguments, result
  flight, call, ret, numAllocated,      \* one Flight object, the last call on it, its outcome
  flight_objects, item, report, pc, processed, repeat   \* create_flight

vars == <<number, ctor, model, dept, dest, route, flight, call, ret, numAllocated,
          flight_objects, item, report, pc, processed, repeat>>

numberVars == <<number, ctor>>
routeVars == <<model, dept, dest, route>>
flightVars == <<flight, call, ret, numAllocated>>
importVars == <<flight_objects, item, report, pc, processed, repeat>>

----------------------------------------------------------------------------
(* Python values and string methods *)

None == <<>>
Some(v) == <<v>>

Range(s) == {s[i] : i \in DOMAIN s}

DigitChars == {"0", "1", "2", "3", "4", "5", "6", "7", "8", "9"}
UpperChars == {"A", "B", "C", "D", "E", "F", "G", "H", "I", "J", "K", "L", "M",
               "N", "O", "P", "Q", "R", "S", "T", "U", "V", "W", "X", "Y", "Z"}
LowerChars == {"a", "b", "c", "d", "e", "f", "g", "h", "i", "j", "k", "l", "m",
               "n", "o", "p", "q", "r", "s", "t", "u", "v", "w", "x", "y", "z"}

DigitVal(c) ==
  CASE c = "0" -> 0 [] c = "1" -> 1 [] c = "2" -> 2 [] c = "3" -> 3 [] c = "4" -> 4
    [] c = "5" -> 5 [] c = "6" -> 6 [] c = "7" -> 7 [] c = "8" -> 8 [] c = "9" -> 9

DigitChar(d) ==
  CASE d = 0 -> "0" [] d = 1 -> "1" [] d = 2 -> "2" [] d = 3 -> "3" [] d = 4 -> "4"
    [] d = 5 -> "5" [] d = 6 -> "6" [] d = 7 -> "7" [] d = 8 -> "8" [] d = 9 -> "9"

\* s[:n]
Take(s, n) == SubSeq(s, 1, IF Len(s) < n THEN Len(s) ELSE n)
\* s[n:]
Drop(s, n) == SubSeq(s, n + 1, Len(s))

\* str.isalpha(): at least one character and every character a letter
isalpha(s) == Len(s) > 0 /\ \A i \in DOMAIN s : s[i] \in UpperChars \cup LowerChars

\* str.isupper(): at least one cased character and no lowercase character
isupper(s) == (\E i \in DOMAIN s : s[i] \in UpperChars)
              /\ \A i \in DOMAIN s : s[i] \notin LowerChars

\* str.isdigit(): at least one character and every character a digit
isdigit(s) == Len(s) > 0 /\ \A i \in DOMAIN s : s[i] \in DigitChars

\* the value of a string of decimal digits
RECURSIVE DecimalValue(_)
DecimalValue(s) ==
  IF s = <<>> THEN 0
  ELSE 10 * DecimalValue(SubSeq(s, 1, Len(s) - 1)) + DigitVal(s[Len(s)])

\* "{}".format(n) for an integer n
RECURSIVE NatToStr(_)
NatToStr(n) == IF n < 10 THEN <<DigitChar(n)>> ELSE Append(NatToStr(n \div 10), DigitChar(n % 10))
IntToStr(n) == IF n < 0 THEN <<"-">> \o NatToStr(0 - n) ELSE NatToStr(n)

\* str.strip() of blanks
RECURSIVE Strip(_)
Strip(s) ==
  IF s = <<>> THEN s
  ELSE IF Head(s) = " " THEN Strip(Tail(s))
  ELSE IF s[Len(s)] = " " THEN Strip(SubSeq(s, 1, Len(s) - 1))
  ELSE s

\* int(text): surrounding blanks, an optional sign, decimal digits that single
\* underscores may separate.  [ok |-> FALSE] stands for the ValueError.
IntParse(text) ==
  LET t == Strip(text)
      signed == t # <<>> /\ Head(t) \in {"+", "-"}
      body == IF signed THEN Tail(t) ELSE t
      wellFormed ==
        /\ body # <<>>
        /\ \A i \in DOMAIN body : body[i] \in DigitChars \cup {"_"}
        /\ body[1] # "_" /\ body[Len(body)] # "_"
        /\ \A i \in 1..(Len(body) - 1) : ~(body[i] = "_" /\ body[i + 1] = "_")
      digits == SelectSeq(body, LAMBDA c : c # "_")
  IN IF ~wellFormed THEN [ok |-> FALSE, val |-> 0]
     ELSE [ok |-> TRUE,
           val |-> IF signed /\ Head(t) = "-" THEN 0 - DecimalValue(digits)
                   ELSE DecimalValue(digits)]

----------------------------------------------------------------------------
(* Aircraft, AirbusA319, Boeing777 *)

AircraftTypes == {"AirbusA319", "Boeing777"}

\* an Aircraft object: its class and its registration
Aircraft(type, registration) == [type |-> type, registration |-> registration]

\* range(lo, hi) as the sequence it iterates
PyRange(lo, hi) == [i \in 1..(hi - lo) |-> lo + i - 1]

\* AirbusA319.seating_plan and Boeing777.seating_plan
AirbusA319_seating_plan == <<PyRange(1, 23), <<"A", "B", "C", "D", "E", "F">>>>
Boeing777_seating_plan == <<PyRange(1, 56), <<"A", "B", "C", "D", "E", "F", "G", "H", "J", "K">>>>

seating_plan(aircraft) ==
  IF aircraft.type = "AirbusA319" THEN AirbusA319_seating_plan ELSE Boeing777_seating_plan

aircraft_model(aircraft) ==
  IF aircraft.type = "AirbusA319" THEN "Airbus A319" ELSE "Boeing 777"

avail_routes(aircraft) ==
  IF aircraft.type = "AirbusA319"
  THEN [k \in {"EDB", "LCY", "LGW", "LHR"} |->
          CASE k = "EDB" -> <<"LCY", "LGW", "LHR">>
            [] k = "LCY" -> <<"ABZ", "GLA", "EDB">>
            [] k = "LGW" -> <<"ABZ", "EDB", "GLA">>
            [] k = "LHR" -> <<"ABZ", "EDB", "GLA">>]
  ELSE [k \in {"EDB", "LGW", "LHR"} |->
          CASE k = "EDB" -> <<"LHR">>
            [] k = "LGW" -> <<"BFS", "EDB", "GLA">>
            [] k = "LHR" -> <<"BFS", "EDB", "GLA">>]

available_routes(aircraft) == avail_routes(aircraft)

num_seats(aircraft) ==
  LET plan == seating_plan(aircraft) IN Len(plan[1]) * Len(plan[2])

\* the -1 that Aircraft.flight_route returns, as a 1-tuple so that it compares
\* with a (dept, dest) pair
NOT_FOUND == <<-1>>

\* dict.get(key): the value, or None
DictGet(d, k) == IF k \in DOMAIN d THEN Some(d[k]) ELSE None

flight_route_nocheck(aircraft, dp, ds) == <<dp, ds>>

flight_route(aircraft, dp, ds) ==
  LET routes == available_routes(aircraft)
      got == DictGet(routes, dp)
  IN IF got # None /\ got[1] # <<>> /\ ds \in Range(got[1])
     THEN <<dp, ds>>
     ELSE NOT_FOUND

----------------------------------------------------------------------------
(* Flight *)

\* the ValueError messages of Flight, without their arguments, and the two
\* faults that are no ValueError
NoAirlineCode == "ValueError: No airline code"
InvalidAirlineCode == "ValueError: Invalid airline code"
InvalidRouteNumber == "ValueError: Invalid route number"
InvalidSeatLetter == "ValueError: Invalid seat letter"
InvalidSeatRow == "ValueError: Invalid seat row"
InvalidRowNumber == "ValueError: Invalid row number"
SeatOccupied == "ValueError: Seat is already occupied"
IndexError == "IndexError"
StopIteration == "StopIteration"

\* the rows without the None in front
InitialSeating_zero_indexed(aircraft) ==
  LET plan == seating_plan(aircraft)
  IN [r \in 0..(Len(plan[1]) - 1) |-> [letter \in Range(plan[2]) |-> None]]

\* [None] + [{letter: None for letter in seats} for _ in rows]
InitialSeating(aircraft) ==
  LET plan == seating_plan(aircraft)
  IN [r \in 0..Len(plan[1]) |->
        IF r = 0 THEN None ELSE [letter \in Range(plan[2]) |-> None]]

\* Flight.__init__: err is the exception raised (None when construction
\* succeeds), obj the Flight constructed
FlightInit(num, dp, ds, aircraft) ==
  LET bad == IF ~isalpha(Take(num, 2)) THEN Some(NoAirlineCode)
             ELSE IF ~isupper(Take(num, 2)) THEN Some(InvalidAirlineCode)
             ELSE IF ~(isdigit(Drop(num, 2)) /\ DecimalValue(Drop(num, 2)) <= 9999)
                  THEN Some(InvalidRouteNumber)
             ELSE None
  IN [err |-> bad,
      obj |-> IF bad # None THEN None
              ELSE Some([number |-> num, aircraft |-> aircraft, dept |-> dp, dest |-> ds,
                         seating |-> InitialSeating(aircraft)])]

Flight_number(f) == f.number

Flight_aircraft_model(f) == aircraft_model(f.aircraft)

\* allocate_seat without its occupancy test
allocate_seat_overwrite(f, seat, passenger) ==
  LET plan == seating_plan(f.aircraft)
      letter == seat[Len(seat)]
      parsed == IntParse(SubSeq(seat, 1, Len(seat) - 1))
  IN IF seat = <<>> THEN [err |-> Some(IndexError), obj |-> f]
     ELSE IF letter \notin Range(plan[2]) THEN [err |-> Some(InvalidSeatLetter), obj |-> f]
     ELSE IF ~parsed.ok THEN [err |-> Some(InvalidSeatRow), obj |-> f]
     ELSE IF parsed.val \notin Range(plan[1]) THEN [err |-> Some(InvalidRowNumber), obj |-> f]
     ELSE [err |-> None,
           obj |-> [f EXCEPT !.seating[parsed.val][letter] = Some(passenger)]]

\* allocate_seat that reads the row before it tests the letter
allocate_seat_row_first(f, seat, passenger) ==
  LET plan == seating_plan(f.aircraft)
      letter == seat[Len(seat)]
      parsed == IntParse(SubSeq(seat, 1, Len(seat) - 1))
  IN IF seat = <<>> THEN [err |-> Some(IndexError), obj |-> f]
     ELSE IF ~parsed.ok THEN [err |-> Some(InvalidSeatRow), obj |-> f]
     ELSE IF letter \notin Range(plan[2]) THEN [err |-> Some(InvalidSeatLetter), obj |-> f]
     ELSE IF parsed.val \notin Range(plan[1]) THEN [err |-> Some(InvalidRowNumber), obj |-> f]
     ELSE IF f.seating[parsed.val][letter] # None THEN [err |-> Some(SeatOccupied), obj |-> f]
     ELSE [err |-> None,
           obj |-> [f EXCEPT !.seating[parsed.val][letter] = Some(passenger)]]

\* allocate_seat that assigns the seat before it tests the occupancy
allocate_seat_assign_first(f, seat, passenger) ==
  LET plan == seating_plan(f.aircraft)
      letter == seat[Len(seat)]
      parsed == IntParse(SubSeq(seat, 1, Len(seat) - 1))
  IN IF seat = <<>> THEN [err |-> Some(IndexError), obj |-> f]
     ELSE IF letter \notin Range(plan[2]) THEN [err |-> Some(InvalidSeatLetter), obj |-> f]
     ELSE IF ~parsed.ok THEN [err |-> Some(InvalidSeatRow), obj |-> f]
     ELSE IF parsed.val \notin Range(plan[1]) THEN [err |-> Some(InvalidRowNumber), obj |-> f]
     ELSE [err |-> IF f.seating[parsed.val][letter] # None THEN Some(SeatOccupied) ELSE None,
           obj |-> [f EXCEPT !.seating[parsed.val][letter] = Some(passenger)]]

\* Flight.allocate_seat: err is the exception raised (None on success), obj
\* the Flight afterwards
allocate_seat(f, seat, passenger) ==
  LET plan == seating_plan(f.aircraft)
      rows == plan[1]
      seat_letters == plan[2]
      letter == seat[Len(seat)]
      row_text == SubSeq(seat, 1, Len(seat) - 1)
      parsed == IntParse(row_text)
      row == parsed.val
  IN IF seat = <<>> THEN [err |-> Some(IndexError), obj |-> f]
     ELSE IF letter \notin Range(seat_letters) THEN [err |-> Some(InvalidSeatLetter), obj |-> f]
     ELSE IF ~parsed.ok THEN [err |-> Some(InvalidSeatRow), obj |-> f]
     ELSE IF row \notin Range(rows) THEN [err |-> Some(InvalidRowNumber), obj |-> f]
     ELSE IF f.seating[row][letter] # None THEN [err |-> Some(SeatOccupied), obj |-> f]
     ELSE [err |-> None,
           obj |-> [f EXCEPT !.seating[row][letter] = Some(passenger)]]

Flight_available_routes(f) == available_routes(f.aircraft)

Flight_flight_route(f) == flight_route(f.aircraft, f.dept, f.dest)

\* sum(1 for s in row.values() if s is None)
CountFree(rowDict) == Cardinality({l \in DOMAIN rowDict : rowDict[l] = None})

RECURSIVE SumRows(_, _)
SumRows(seating, upto) ==
  IF upto < 0 THEN 0
  ELSE (IF seating[upto] = None THEN 0
        ELSE CountFree(seating[upto]))
       + SumRows(seating, upto - 1)

\* num_available_seats losing the last row
num_available_seats_short(f) ==
  LET hi == CHOOSE h \in DOMAIN f.seating : \A r \in DOMAIN f.seating : r <= h
  IN SumRows(f.seating, hi - 1)

num_available_seats(f) ==
  LET hi == CHOOSE h \in DOMAIN f.seating : \A r \in DOMAIN f.seating : r <= h
  IN SumRows(f.seating, hi)

\* the (row, letter) pairs of a plan in the order of
\*   for row in row_numbers: for letter in seat_letters
RowMajor(plan) ==
  LET n == Len(plan[2])
  IN [k \in 1..(Len(plan[1]) * n) |->
        <<plan[1][((k - 1) \div n) + 1], plan[2][((k - 1) % n) + 1]>>]

AirbusA319_cells == RowMajor(AirbusA319_seating_plan)
Boeing777_cells == RowMajor(Boeing777_seating_plan)

\* the cells the two loops visit on a Flight of this aircraft
PlanCells(aircraft) ==
  IF aircraft.type = "AirbusA319" THEN AirbusA319_cells ELSE Boeing777_cells

\* "{}{}".format(letter, row)
Designator_letter_first(cell) == <<cell[2]>> \o IntToStr(cell[1])

\* "{}{}".format(row, letter)
Designator(cell) == Append(IntToStr(cell[1]), cell[2])

\* the generator without its test for None
FreeCells_any(f) == PlanCells(f.aircraft)

\* the cells at which the loops of _seat_generator find None
FreeCells(f) == SelectSeq(PlanCells(f.aircraft), LAMBDA c : f.seating[c[1]][c[2]] = None)

\* Flight._seat_generator, as the sequence of what it yields
seat_generator(f) ==
  LET free == FreeCells(f) IN [i \in 1..Len(free) |-> Designator(free[i])]

\* __next__ taking the last free seat instead of the first
generator_next_last(f) ==
  LET free == FreeCells(f)
  IN IF free = <<>> THEN [err |-> Some(StopIteration), val |-> None]
     ELSE [err |-> None, val |-> Some(Designator(free[Len(free)]))]

\* _seat_generator().__next__(): the first designator yielded, or the
\* StopIteration of a generator that yields nothing
generator_next(f) ==
  LET free == FreeCells(f)
  IN IF free = <<>> THEN [err |-> Some(StopIteration), val |-> None]
     ELSE [err |-> None, val |-> Some(Designator(Head(free)))]

\* Flight._passenger_seats, as the sequence of what it yields
passenger_seats(f) ==
  LET taken == SelectSeq(PlanCells(f.aircraft), LAMBDA c : f.seating[c[1]][c[2]] # None)
  IN [i \in 1..Len(taken) |-> <<f.seating[taken[i][1]][taken[i][2]][1], Designator(taken[i])>>]

\* the characters of a passenger name
Chars(name) ==
  CASE name = "Alice" -> <<"A", "l", "i", "c", "e">>
    [] name = "Bob" -> <<"B", "o", "b">>

UpperSeq == <<"A", "B", "C", "D", "E", "F", "G", "H", "I", "J", "K", "L", "M",
              "N", "O", "P", "Q", "R", "S", "T", "U", "V", "W", "X", "Y", "Z">>
LowerSeq == <<"a", "b", "c", "d", "e", "f", "g", "h", "i", "j", "k", "l", "m",
              "n", "o", "p", "q", "r", "s", "t", "u", "v", "w", "x", "y", "z">>

\* ord(c) for digits and letters
ord(c) ==
  IF c \in DigitChars THEN 48 + DigitVal(c)
  ELSE IF c \in UpperChars THEN 64 + (CHOOSE i \in DOMAIN UpperSeq : UpperSeq[i] = c)
  ELSE 96 + (CHOOSE i \in DOMAIN LowerSeq : LowerSeq[i] = c)

\* s < t for str: the first differing character decides, a proper prefix is
\* smaller
RECURSIVE StrLess(_, _)
StrLess(s, t) ==
  IF t = <<>> THEN FALSE
  ELSE IF s = <<>> THEN TRUE
  ELSE IF Head(s) # Head(t) THEN ord(Head(s)) < ord(Head(t))
  ELSE StrLess(Tail(s), Tail(t))

\* a < b for the (passenger, seat) tuples of _passenger_seats
TupleLess(a, b) ==
  \/ StrLess(Chars(a[1]), Chars(b[1]))
  \/ a[1] = b[1] /\ StrLess(a[2], b[2])

\* x put into an ascending list, after the elements that are not greater
RECURSIVE Insert(_, _)
Insert(x, list) ==
  IF list = <<>> THEN <<x>>
  ELSE IF TupleLess(x, Head(list)) THEN <<x>> \o list
  ELSE <<Head(list)>> \o Insert(x, Tail(list))

\* sorted(iterable): ascending and stable
RECURSIVE sorted(_)
sorted(list) ==
  IF list = <<>> THEN <<>>
  ELSE Insert(list[Len(list)], sorted(SubSeq(list, 1, Len(list) - 1)))

\* make_boarding_cards that takes _passenger_seats as it comes
make_boarding_cards_unsorted(f) ==
  LET ps == passenger_seats(f)
  IN [i \in DOMAIN ps |-> <<ps[i][1], ps[i][2], f.dept, f.dest,
                            Flight_number(f), Flight_aircraft_model(f)>>]

\* Flight.make_boarding_cards, as the sequence of the calls of card_printer
make_boarding_cards(f) ==
  LET ps == sorted(passenger_seats(f))
  IN [i \in DOMAIN ps |-> <<ps[i][1], ps[i][2], f.dept, f.dest,
                            Flight_number(f), Flight_aircraft_model(f)>>]

----------------------------------------------------------------------------
(* create_flight: one iteration of the loop over the bookings *)

\* the outcomes of an iteration: the passenger is seated, one of the two
\* warnings is printed, nothing at all happens, or an exception leaves the loop
Seated(seat) == [kind |-> "seated", seat |-> seat]
PrintedNoRoute(b) ==
  [kind |-> "printed_no_flights", args |-> <<b.name, b.number, b.aircraft, b.dept, b.dest>>]
PrintedMismatch(b) ==
  [kind |-> "printed_incorrect_codes", args |-> <<b.name, b.number, b.dept, b.dest>>]
Nothing == [kind |-> "nothing"]
Raised(err) == [kind |-> "raised", err |-> err]

\* the list as it was before the loop, when no Flight was there
ExistingFlights_stale(fo) == <<>>

\* existing_flights = [x[1] for x in flight_objects]
ExistingFlights(fo) == [i \in DOMAIN fo |-> fo[i][2]]

\* list.index(value): the first position, from 0
ListIndex(list, v) == (CHOOSE i \in DOMAIN list : list[i] = v /\ \A j \in 1..(i - 1) : list[j] # v) - 1

\* _seat = flightobj._seat_generator().__next__(); flightobj.allocate_seat(_seat, _name)
SeatNext(f, name) ==
  LET nxt == generator_next(f)
      done == allocate_seat(f, nxt.val[1], name)
  IN IF nxt.err # None THEN [err |-> nxt.err, obj |-> f, seat |-> None]
     ELSE [err |-> done.err, obj |-> done.obj, seat |-> nxt.val]

\* the body of the two branches for a flight number not seen yet: the route is
\* tested on an aircraft of testType, the Flight is built on one of flightType;
\* printsWarning tells whether the branch has the else that prints
NewFlightBranch(fo, b, testType, flightType, printsWarning) ==
  LET test_craft == Aircraft(testType, b.reg)
      made == FlightInit(b.number, b.dept, b.dest, Aircraft(flightType, b.reg))
      seated == SeatNext(made.obj[1], b.name)
  IN IF flight_route(test_craft, b.dept, b.dest) # NOT_FOUND
     THEN IF made.err # None THEN [fo |-> fo, out |-> Raised(made.err[1])]
          ELSE IF seated.err # None THEN [fo |-> fo, out |-> Raised(seated.err[1])]
          ELSE [fo |-> Append(fo, <<seated.obj, b.number>>), out |-> Seated(seated.seat[1])]
     ELSE [fo |-> fo, out |-> IF printsWarning THEN PrintedNoRoute(b) ELSE Nothing]

\* the else branch: the flight number is looked up among the existing flights
ExistingFlightBranch(fo, b) ==
  LET existing_flights == ExistingFlights(fo)
      flightindex == ListIndex(existing_flights, b.number)
      flightobj == fo[flightindex + 1][1]
      seated == SeatNext(flightobj, b.name)
  IN IF b.number \notin Range(existing_flights)
     THEN [fo |-> fo, out |-> Raised("ValueError: is not in list")]
     ELSE IF Flight_flight_route(flightobj) = <<b.dept, b.dest>>
     THEN IF seated.err # None THEN [fo |-> fo, out |-> Raised(seated.err[1])]
          ELSE [fo |-> [fo EXCEPT ![flightindex + 1][1] = seated.obj],
                out |-> Seated(seated.seat[1])]
     ELSE [fo |-> fo, out |-> PrintedMismatch(b)]

\* one iteration of   for item in bookings
LoopBody(fo, b) ==
  LET existing_flights == ExistingFlights(fo)
  IN IF b.number \notin Range(existing_flights) /\ b.aircraft = "AirbusA319"
     THEN NewFlightBranch(fo, b, "AirbusA319", "AirbusA319", TRUE)
     ELSE IF b.number \notin Range(existing_flights) /\ b.aircraft = "Boeing777"
     THEN NewFlightBranch(fo, b, "AirbusA319", "Boeing777", FALSE)
     ELSE ExistingFlightBranch(fo, b)

----------------------------------------------------------------------------
(* The values the variables of the other specifications keep *)

Pending == [state |-> "pending"]

NumberIdle == number = <<>> /\ ctor = Pending
RouteIdle == model = "AirbusA319" /\ dept = "" /\ dest = "" /\ route = None
FlightIdle == flight = None /\ call = Pending /\ ret = Pending /\ numAllocated = 0
ImportIdle == /\ flight_objects = <<>> /\ item = None /\ report = Pending
              /\ pc = "idle" /\ processed = 0 /\ repeat = FALSE

----------------------------------------------------------------------------
(* SpecNumber: Flight(number, ...) for the flight numbers of NumberInputs *)

MaxNumberLen == 7
NumberAlphabet == {"B", "b", "0", "9", "-"}
NumberInputs == UNION {[1..n -> NumberAlphabet] : n \in 0..MaxNumberLen}

InitNumber ==
  /\ number \in NumberInputs
  /\ ctor = Pending
  /\ RouteIdle /\ FlightIdle /\ ImportIdle

Construct ==
  /\ ctor = Pending
  /\ ctor' = [state |-> "done",
              err |-> FlightInit(number, "EDB", "LHR", Aircraft("AirbusA319", "G-1")).err]
  /\ UNCHANGED <<number, routeVars, flightVars, importVars>>

NextNumber == Construct

SpecNumber == InitNumber /\ [][NextNumber]_vars

\* ^[A-Z]{2}[0-9]{1,4}$
MatchesFlightNumberFormat(s) ==
  /\ Len(s) \in 3..6
  /\ s[1] \in UpperChars /\ s[2] \in UpperChars
  /\ \A i \in 3..Len(s) : s[i] \in DigitChars

\* C4: construction succeeds for exactly the flight numbers that are two
\* uppercase letters followed by 1 to 4 digits, and fails with a format error
\* for every other string.
C4_ConstructionIffWellFormed ==
  ctor.state = "done" =>
    /\ MatchesFlightNumberFormat(number) => ctor.err = None
    /\ ~MatchesFlightNumberFormat(number) =>
         ctor.err \in {Some(NoAirlineCode), Some(InvalidAirlineCode), Some(InvalidRouteNumber)}

----------------------------------------------------------------------------
(* SpecRoute: Aircraft.flight_route on both models for the codes of Airports *)

Airports == {"EDB", "LCY", "LGW", "LHR", "ABZ", "GLA", "BFS", "XXX"}

InitRoute ==
  /\ model \in AircraftTypes
  /\ dept \in Airports
  /\ dest \in Airports
  /\ route = None
  /\ NumberIdle /\ FlightIdle /\ ImportIdle

CallFlightRoute ==
  /\ route = None
  /\ route' = Some(flight_route(Aircraft(model, "G-1"), dept, dest))
  /\ UNCHANGED <<model, dept, dest, numberVars, flightVars, importVars>>

NextRoute == CallFlightRoute

SpecRoute == InitRoute /\ [][NextRoute]_vars

\* the destinations the route table of an aircraft type lists for dp
Reachable(type, dp) ==
  LET table == avail_routes(Aircraft(type, "G-1"))
  IN IF dp \in DOMAIN table THEN Range(table[dp]) ELSE {}

\* C5: flight_route(dept, dest) returns (dept, dest) exactly when dest is in
\* the model's reachable set for dept and the NOT_FOUND sentinel otherwise,
\* also when dept is no key of the table; on AirbusA319 EDB-LHR is returned
\* and EDB-BFS is NOT_FOUND.
C5_FlightRouteLookup ==
  route # None =>
    /\ dest \in Reachable(model, dept) => route[1] = <<dept, dest>>
    /\ dest \notin Reachable(model, dept) => route[1] = NOT_FOUND
    /\ (model = "AirbusA319" /\ dept = "EDB" /\ dest = "LHR") => route[1] = <<"EDB", "LHR">>
    /\ (model = "AirbusA319" /\ dept = "EDB" /\ dest = "BFS") => route[1] = <<-1>>

C5_Witness ==
  /\ route = Some(NOT_FOUND)
  /\ dept \notin DOMAIN avail_routes(Aircraft(model, "G-1"))

----------------------------------------------------------------------------
(* SpecFlight: one Flight of either aircraft type and the calls made on it *)

Names == {"Alice", "Bob"}

\* the designators allocate_seat is called with: cells of both plans (1A also
\* as 01A), cells of the Boeing777 plan only (row 23, letter G), rows outside
\* both plans, prefixes that are no number, letters of neither plan, and the
\* empty string
SeatInputs ==
  {<<"1", "A">>, <<"0", "1", "A">>, <<"1", "B">>, <<"2", "3", "A">>, <<"2", "3", "G">>,
   <<"0", "A">>, <<"5", "6", "A">>, <<"-", "1", "A">>, <<"x", "A">>, <<"A">>,
   <<"1", "Z">>, <<"x", "Z">>, <<"5", "6", "Z">>, <<"1", "a">>, <<>>}

InitFlight ==
  /\ \E type \in AircraftTypes :
       flight = FlightInit(<<"B", "A", "1">>, "EDB", "LHR", Aircraft(type, "G-1")).obj
  /\ call = Pending
  /\ ret = Pending
  /\ numAllocated = 0
  /\ NumberIdle /\ RouteIdle /\ ImportIdle

AllocateSeat ==
  \E seat \in SeatInputs, passenger \in Names :
    LET r == allocate_seat(flight[1], seat, passenger)
    IN /\ flight' = Some(r.obj)
       /\ call' = [op |-> "allocate_seat", seat |-> seat, passenger |-> passenger]
       /\ ret' = [err |-> r.err]
       /\ numAllocated' = IF r.err = None THEN numAllocated + 1 ELSE numAllocated
       /\ UNCHANGED <<numberVars, routeVars, importVars>>

NumAvailableSeats ==
  /\ call' = [op |-> "num_available_seats"]
  /\ ret' = [val |-> num_available_seats(flight[1])]
  /\ UNCHANGED <<flight, numAllocated, numberVars, routeVars, importVars>>

\* list(flight._seat_generator())
IterateSeatGenerator ==
  /\ call' = [op |-> "_seat_generator"]
  /\ ret' = [val |-> seat_generator(flight[1])]
  /\ UNCHANGED <<flight, numAllocated, numberVars, routeVars, importVars>>

MakeBoardingCards ==
  /\ call' = [op |-> "make_boarding_cards"]
  /\ ret' = [val |-> make_boarding_cards(flight[1])]
  /\ UNCHANGED <<flight, numAllocated, numberVars, routeVars, importVars>>

FlightRoute ==
  /\ call' = [op |-> "flight_route"]
  /\ ret' = [val |-> Flight_flight_route(flight[1])]
  /\ UNCHANGED <<flight, numAllocated, numberVars, routeVars, importVars>>

AvailableRoutes ==
  /\ call' = [op |-> "available_routes"]
  /\ ret' = [val |-> Flight_available_routes(flight[1])]
  /\ UNCHANGED <<flight, numAllocated, numberVars, routeVars, importVars>>

NextFlight ==
  \/ AllocateSeat
  \/ NumAvailableSeats
  \/ IterateSeatGenerator
  \/ MakeBoardingCards
  \/ FlightRoute
  \/ AvailableRoutes

SpecFlight == InitFlight /\ [][NextFlight]_vars

\* the cell a designator addresses, if any: its numeric prefix and its last
\* character
Addressed(seat) ==
  IF seat = <<>> \/ ~IntParse(SubSeq(seat, 1, Len(seat) - 1)).ok THEN None
  ELSE Some(<<IntParse(SubSeq(seat, 1, Len(seat) - 1)).val, seat[Len(seat)]>>)

Occupant(f, cell) == f.seating[cell[1]][cell[2]]

PlanRows(f) == Range(seating_plan(f.aircraft)[1])
PlanLetters(f) == Range(seating_plan(f.aircraft)[2])
PlanCellSet(f) == PlanRows(f) \X PlanLetters(f)

\* C1: once a cell holds a passenger, every later allocate_seat on that cell
\* fails with the seat-occupied error and the cell keeps its occupant.
C1_CellAllocatedAtMostOnce ==
  [][/\ \A r \in PlanRows(flight[1]), l \in PlanLetters(flight[1]) :
          flight[1].seating[r][l] # None
            => flight'[1].seating[r][l] = flight[1].seating[r][l]
     /\ LET cell == Addressed(call'.seat)
        IN (/\ call'.op = "allocate_seat"
            /\ cell # None
            /\ cell[1] \in PlanCellSet(flight[1])
            /\ Occupant(flight[1], cell[1]) # None)
             => (ret'.err = Some(SeatOccupied) /\ numAllocated' = numAllocated)]_flightVars

C1_Witness ==
  /\ call # Pending /\ call.op = "allocate_seat"
  /\ ret.err = Some(SeatOccupied)
  /\ Addressed(call.seat) # None
  /\ Addressed(call.seat)[1] \in PlanCellSet(flight[1])
  /\ Occupant(flight[1], Addressed(call.seat)[1]) \notin {None, Some(call.passenger)}

\* the position of a letter in the plan's column string
ColumnIndex(f, letter) ==
  CHOOSE i \in DOMAIN seating_plan(f.aircraft)[2] : seating_plan(f.aircraft)[2][i] = letter

CellBefore(f, c1, c2) ==
  \/ c1[1] < c2[1]
  \/ c1[1] = c2[1] /\ ColumnIndex(f, c1[2]) < ColumnIndex(f, c2[2])

\* C2: _seat_generator yields exactly the unoccupied cells, never an occupied
\* one, in strictly increasing (row, column index) order; its first element
\* is the row-major minimum unoccupied cell.
C2_GeneratorYieldsFreeCellsInOrder ==
  flight # None =>
    LET f == flight[1]
        gen == seat_generator(f)
        cells == [i \in DOMAIN gen |-> Addressed(gen[i])]
        free == {c \in PlanCellSet(f) : Occupant(f, c) = None}
    IN /\ \A i \in DOMAIN cells : cells[i] # None /\ cells[i][1] \in free
       /\ {cells[i][1] : i \in DOMAIN cells} = free
       /\ \A i \in 1..(Len(cells) - 1) : CellBefore(f, cells[i][1], cells[i + 1][1])
       /\ free # {} =>
            \A c \in free : c = cells[1][1] \/ CellBefore(f, cells[1][1], c)

C2_Witness ==
  /\ flight # None
  /\ flight[1].aircraft.type = "Boeing777"
  /\ Occupant(flight[1], <<1, "A">>) # None
  /\ Occupant(flight[1], <<1, "B">>) = None
  /\ Occupant(flight[1], <<23, "G">>) # None
  /\ call # Pending /\ call.op = "_seat_generator"
  /\ ret.val[1] = <<"1", "B">>

\* C3: num_available_seats() is num_seats() minus the number of successful
\* allocate_seat calls so far; a failed allocation does not change it.
C3_AvailableIsTotalMinusAllocated ==
  flight # None =>
    /\ num_available_seats(flight[1]) = num_seats(flight[1].aircraft) - numAllocated
    /\ (call # Pending /\ call.op = "num_available_seats")
         => ret.val = num_seats(flight[1].aircraft) - numAllocated

C3_Witness ==
  /\ flight # None
  /\ numAllocated = 3
  /\ call # Pending /\ call.op = "num_available_seats"
  /\ ret.val = num_seats(flight[1].aircraft) - 3

----------------------------------------------------------------------------
(* Spec: create_flight over a list of bookings.  The list is either any list *)
(* of at most MaxBookings bookings or one booking repeated at most           *)
(* MaxRepeats times (which fills an aircraft).                               *)

MaxBookings == 2
MaxRepeats == 552

\* routes of both tables (EDB-LHR), of the AirbusA319 table only (EDB-LCY), of
\* the Boeing777 table only (LGW-BFS) and of neither table (EDB-BFS)
RouteInputs == {<<"EDB", "LHR">>, <<"EDB", "LCY">>, <<"LGW", "BFS">>, <<"EDB", "BFS">>}
FlightNumberInputs == {<<"B", "A", "1", "0", "0">>, <<"B", "A", "2", "0", "0">>, <<"b", "a", "1">>}
AircraftInputs == {"AirbusA319", "Boeing777", "Cessna172"}

Bookings ==
  {[name |-> n, dept |-> r[1], dest |-> r[2], number |-> num, aircraft |-> a, reg |-> "G-1"] :
     n \in Names, r \in RouteInputs, num \in FlightNumberInputs, a \in AircraftInputs}

Init ==
  /\ flight_objects = <<>>
  /\ item = None
  /\ report = Pending
  /\ pc = "loop"
  /\ processed = 0
  /\ repeat \in BOOLEAN
  /\ NumberIdle /\ RouteIdle /\ FlightIdle

ProcessBooking ==
  \E b \in Bookings :
    /\ pc = "loop"
    /\ IF repeat THEN processed < MaxRepeats /\ (item = None \/ item = Some(b))
       ELSE processed < MaxBookings
    /\ LET step == LoopBody(flight_objects, b)
       IN /\ flight_objects' = step.fo
          /\ report' = step.out
          /\ pc' = IF step.out.kind = "raised" THEN "raised" ELSE "loop"
    /\ item' = Some(b)
    /\ processed' = processed + 1
    /\ UNCHANGED <<repeat, numberVars, routeVars, flightVars>>

Next == ProcessBooking

Spec == Init /\ [][Next]_vars

\* the Flight create_flight holds for a flight number
FlightOf(fo, num) == fo[ListIndex(ExistingFlights(fo), num) + 1][1]

HasFlight(fo, num) == num \in Range(ExistingFlights(fo))

\* the occupied cells of a Flight, in row-major order
TakenCells(f) == SelectSeq(PlanCells(f.aircraft), LAMBDA c : f.seating[c[1]][c[2]] # None)

AliceBA100 == [name |-> "Alice", dept |-> "EDB", dest |-> "LHR",
               number |-> <<"B", "A", "1", "0", "0">>, aircraft |-> "AirbusA319", reg |-> "G-1"]
BobBA100 == [AliceBA100 EXCEPT !.name = "Bob"]

\* C6: the k-th accepted booking of a flight number is seated in the k-th
\* cell of the plan in row-major order, earlier passengers keep their seats,
\* and a booking that is not accepted changes no Flight; Alice then Bob for
\* BA100 on an AirbusA319 EDB-LHR give one Flight with Alice in 1A, Bob in 1B.
C6_SeatedInRowMajorOrder ==
  [][/\ report'.kind # "seated" => flight_objects' = flight_objects
     /\ report'.kind = "seated" =>
          LET b == item'[1]
              had == HasFlight(flight_objects, b.number)
              k == IF had THEN Len(TakenCells(FlightOf(flight_objects, b.number))) ELSE 0
              after == FlightOf(flight_objects', b.number)
              kth == PlanCells(after.aircraft)[k + 1]
          IN /\ report'.seat = Designator(kth)
             /\ TakenCells(after) = SubSeq(PlanCells(after.aircraft), 1, k + 1)
             /\ Occupant(after, kth) = Some(b.name)
             /\ had => after = [FlightOf(flight_objects, b.number)
                                  EXCEPT !.seating[kth[1]][kth[2]] = Some(b.name)]
             /\ Cardinality({i \in DOMAIN flight_objects' : flight_objects'[i][2] = b.number}) = 1
     /\ (item = Some(AliceBA100) /\ processed = 1 /\ item' = Some(BobBA100)) =>
          /\ Len(flight_objects') = 1
          /\ flight_objects'[1][2] = <<"B", "A", "1", "0", "0">>
          /\ flight_objects'[1][1].aircraft.type = "AirbusA319"
          /\ flight_objects'[1][1].seating[1]["A"] = Some("Alice")
          /\ flight_objects'[1][1].seating[1]["B"] = Some("Bob")
          /\ num_available_seats(flight_objects'[1][1]) = 130]_importVars

C6_Witness ==
  /\ repeat /\ pc = "loop"
  /\ report = Seated(<<"2", "A">>)
  /\ item = Some(BobBA100)
  /\ Len(flight_objects) = 1
  /\ \A l \in {"A", "B", "C", "D", "E", "F"} : flight_objects[1][1].seating[1][l] = Some("Bob")
  /\ flight_objects[1][1].seating[2]["A"] = Some("Bob")
  /\ flight_objects[1][1].seating[2]["B"] = None

\* the route table of the booking's own aircraft type has the booking's route
OwnTypeHasRoute(b) ==
  flight_route(Aircraft(b.aircraft, b.reg), b.dept, b.dest) # NOT_FOUND

\* C7: a booking for a flight number without a Flight (a number Flight
\* accepts), whose route is absent from the route table of its own aircraft
\* type, produces no Flight and a reported rejection and leaves the existing
\* Flights unchanged.
C7_UnreachableRouteRejected ==
  [][LET b == item'[1]
     IN (/\ ~HasFlight(flight_objects, b.number)
         /\ b.aircraft \in AircraftTypes
         /\ ~OwnTypeHasRoute(b)
         /\ FlightInit(b.number, b.dept, b.dest, Aircraft(b.aircraft, b.reg)).err = None)
          => /\ flight_objects' = flight_objects
             /\ report' = PrintedNoRoute(b)]_importVars

\* C8: a booking for a flight number without a Flight, of a recognized
\* aircraft type whose own route table has the route (and with a flight number
\* Flight accepts), creates a Flight on that aircraft type with the passenger
\* in 1A.
C8_NewFlightOnOwnType ==
  [][LET b == item'[1]
     IN (/\ ~HasFlight(flight_objects, b.number)
         /\ b.aircraft \in AircraftTypes
         /\ OwnTypeHasRoute(b)
         /\ FlightInit(b.number, b.dept, b.dest, Aircraft(b.aircraft, b.reg)).err = None)
          => /\ report' = Seated(<<"1", "A">>)
             /\ Len(flight_objects') = Len(flight_objects) + 1
             /\ HasFlight(flight_objects', b.number)
             /\ FlightOf(flight_objects', b.number).aircraft.type = b.aircraft
             /\ FlightOf(flight_objects', b.number).seating[1]["A"] = Some(b.name)]_importVars

\* C9: a booking for a flight number that has a Flight is seated in the
\* Flight's next free seat if its (dept, dest) is the one the Flight was
\* created with (and a seat is free), and is rejected with the route-mismatch
\* report, the seating unchanged, if it differs.
C9_ExistingFlightRouteCompared ==
  [][LET b == item'[1]
         f == FlightOf(flight_objects, b.number)
     IN HasFlight(flight_objects, b.number) =>
          /\ (<<b.dept, b.dest>> = <<f.dept, f.dest>> /\ FreeCells(f) # <<>>)
               => /\ report' = Seated(Designator(Head(FreeCells(f))))
                  /\ Occupant(FlightOf(flight_objects', b.number), Head(FreeCells(f)))
                       = Some(b.name)
          /\ <<b.dept, b.dest>> # <<f.dept, f.dest>>
               => /\ report' = PrintedMismatch(b)
                  /\ flight_objects' = flight_objects]_importVars

\* C10: a booking that matches an existing Flight without a free seat is
\* reported as a capacity error: the loop goes on, the booking is not seated
\* and no seat changes.
C10_ExhaustionReported ==
  [][LET b == item'[1]
         f == FlightOf(flight_objects, b.number)
     IN (/\ HasFlight(flight_objects, b.number)
         /\ <<b.dept, b.dest>> = <<f.dept, f.dest>>
         /\ FreeCells(f) = <<>>)
          => /\ pc' = "loop"
             /\ report'.kind \notin {"raised", "nothing", "seated"}
             /\ flight_objects' = flight_objects]_importVars

\* C11: a booking whose aircraft type is neither AirbusA319 nor Boeing777 is
\* silently skipped, whether or not its flight number has a Flight: no Flight
\* is created, no seat is allocated, no error is raised and the loop goes on.
C11_UnrecognizedTypeSkipped ==
  [][item'[1].aircraft \notin AircraftTypes
       => /\ flight_objects' = flight_objects
          /\ report' = Nothing
          /\ pc' = "loop"]_importVars

\* C12: a booking rejected because its aircraft type does not fly its route
\* (no Flight has its number yet, a number Flight accepts) or because its route differs from the one
\* its Flight was created with is reported and skipped, and the loop goes on:
\* the step changes no Flight and no seat, so the bookings after it are
\* processed as if the rejected booking had not been in the list.
C12_RejectedReportedAndSkipped ==
  [][LET b == item'[1]
         had == HasFlight(flight_objects, b.number)
         f == FlightOf(flight_objects, b.number)
         routeNotFound ==
           /\ ~had /\ b.aircraft \in AircraftTypes /\ ~OwnTypeHasRoute(b)
           /\ FlightInit(b.number, b.dept, b.dest, Aircraft(b.aircraft, b.reg)).err = None
         routeMismatch == had /\ <<b.dept, b.dest>> # <<f.dept, f.dest>>
     IN (routeNotFound \/ routeMismatch)
          => /\ report' \in {PrintedNoRoute(b), PrintedMismatch(b)}
             /\ flight_objects' = flight_objects
             /\ pc' = "loop"]_importVars

\* C13: make_boarding_cards calls the renderer exactly once for every occupied
\* cell and never for a free one, in non-decreasing order of the passenger
\* name, each call carrying the passenger, the cell's designator, the Flight's
\* departure, destination and number and the aircraft model; with Bob in 1A
\* and Alice in 1B the renderer gets Alice's card first.
C13_BoardingCardsSortedByName ==
  (flight # None /\ call # Pending /\ call.op = "make_boarding_cards") =>
    LET f == flight[1]
        cards == ret.val
        cells == [i \in DOMAIN cards |-> Addressed(cards[i][2])]
        taken == {c \in PlanCellSet(f) : Occupant(f, c) # None}
    IN /\ Len(cards) = Cardinality(taken)
       /\ \A i \in DOMAIN cards :
            /\ cells[i] # None /\ cells[i][1] \in taken
            /\ Occupant(f, cells[i][1]) = Some(cards[i][1])
            /\ cards[i][2] = IntToStr(cells[i][1][1]) \o <<cells[i][1][2]>>
            /\ cards[i][3] = f.dept /\ cards[i][4] = f.dest
            /\ cards[i][5] = f.number
            /\ cards[i][6] = (IF f.aircraft.type = "Boeing777" THEN "Boeing 777"
                              ELSE "Airbus A319")
            /\ Len(cards[i]) = 6
       /\ {cells[i][1] : i \in DOMAIN cards} = taken
       /\ \A i \in 1..(Len(cards) - 1) : ~StrLess(Chars(cards[i + 1][1]), Chars(cards[i][1]))
       /\ (Occupant(f, <<1, "A">>) = Some("Bob") /\ Occupant(f, <<1, "B">>) = Some("Alice"))
            => cards[1][1] = "Alice"

C13_Witness ==
  /\ flight # None /\ call # Pending /\ call.op = "make_boarding_cards"
  /\ Len(ret.val) = 3
  /\ ret.val[1][1] = "Alice" /\ ret.val[1][2] = <<"2", "3", "A">>
  /\ ret.val[2][1] = "Bob" /\ ret.val[2][2] = <<"1", "A">>
  /\ ret.val[3][1] = "Bob" /\ ret.val[3][2] = <<"1", "B">>

QueryOps ==
  {"num_available_seats", "_seat_generator", "make_boarding_cards", "flight_route",
   "available_routes"}

\* C15: num_available_seats, a full iteration of _seat_generator,
\* make_boarding_cards, flight_route and available_routes leave the seating
\* as it was; the seating changes only in a successful allocate_seat; and
\* every iteration of _seat_generator starts anew from the seating at that
\* time: it yields as many designators as cells are free then, each of a cell
\* that is free then.
C15_OnlyAllocateSeatChangesSeating ==
  [][/\ (call' # Pending /\ call'.op \in QueryOps) => flight' = flight
     /\ flight' # flight =>
          /\ call' # Pending /\ call'.op = "allocate_seat" /\ ret'.err = None
          /\ numAllocated' = numAllocated + 1
     /\ (call' # Pending /\ call'.op = "_seat_generator") =>
          LET f == flight'[1]
              gen == ret'.val
          IN /\ Len(gen) = Cardinality({c \in PlanCellSet(f) : Occupant(f, c) = None})
             /\ Len(gen) = num_seats(f.aircraft) - numAllocated'
             /\ \A i \in DOMAIN gen :
                  Addressed(gen[i]) # None /\ Occupant(f, Addressed(gen[i])[1]) = None
    ]_flightVars

C15_Witness ==
  /\ flight # None /\ flight[1].aircraft.type = "AirbusA319"
  /\ numAllocated = 2
  /\ call # Pending /\ call.op = "_seat_generator"
  /\ Len(ret.val) = 130
  /\ ret.val[1] = <<"1", "C">>

\* C16: in every state of a Flight, from its construction on and after any
\* successful and failed allocate_seat calls, the seating has an entry for
\* each (row, letter) of the aircraft's plan and for no other row or letter
\* (index 0 of the list holds the None that makes the rows one-indexed); each
\* entry is empty or holds a passenger, and all are empty at construction.
C16_SeatingCoversExactlyThePlan ==
  flight # None =>
    LET f == flight[1]
    IN /\ DOMAIN f.seating \ {0} = PlanRows(f)
       /\ 0 \in DOMAIN f.seating /\ f.seating[0] = None
       /\ \A r \in PlanRows(f) :
            /\ DOMAIN f.seating[r] = PlanLetters(f)
            /\ \A l \in PlanLetters(f) :
                 f.seating[r][l] \in {None} \cup {Some(n) : n \in Names}
       /\ Cardinality(PlanCellSet(f)) = num_seats(f.aircraft)
       /\ numAllocated = 0 => \A c \in PlanCellSet(f) : Occupant(f, c) = None

C16_Witness ==
  /\ flight # None /\ flight[1].aircraft.type = "Boeing777"
  /\ numAllocated = 2
  /\ call # Pending /\ call.op = "allocate_seat"
  /\ call.seat = <<"5", "6", "Z">>
  /\ ret.err # None

\* C17: every designator an iteration of _seat_generator yields is accepted
\* by allocate_seat on that state of the Flight; the allocation occupies the
\* one cell the generator enumerated for it and no other; and a fresh
\* _seat_generator afterwards no longer yields that designator.
C17_YieldedSeatIsAllocatable ==
  (flight # None /\ call # Pending /\ call.op = "_seat_generator") =>
    LET f == flight[1]
        gen == ret.val
        free == FreeCells(f)
    IN /\ Len(gen) = Len(free)
       /\ \A i \in DOMAIN gen :
            LET r == allocate_seat(f, gen[i], "Alice")
            IN /\ r.err = None
               /\ Occupant(r.obj, free[i]) = Some("Alice")
               /\ r.obj = [f EXCEPT !.seating[free[i][1]][free[i][2]] = Some("Alice")]
               /\ gen[i] \notin Range(seat_generator(r.obj))

C17_Witness ==
  /\ flight # None /\ flight[1].aircraft.type = "Boeing777"
  /\ numAllocated = 1
  /\ call # Pending /\ call.op = "_seat_generator"
  /\ Len(ret.val) = 549
  /\ ret.val[549] = <<"5", "5", "K">>

\* C18: after every processed booking create_flight holds at most one Flight
\* for a flight number, and a Flight it holds stays in its place and keeps the
\* number, departure, destination and aircraft it was created with, whatever
\* the later bookings for that number say.
C18_OneFlightPerNumber ==
  [][/\ \A i, j \in DOMAIN flight_objects' :
          flight_objects'[i][2] = flight_objects'[j][2] => i = j
     /\ \A i \in DOMAIN flight_objects' :
          Flight_number(flight_objects'[i][1]) = flight_objects'[i][2]
     /\ \A i \in DOMAIN flight_objects :
          /\ i \in DOMAIN flight_objects'
          /\ flight_objects'[i][2] = flight_objects[i][2]
          /\ flight_objects'[i][1].number = flight_objects[i][1].number
          /\ flight_objects'[i][1].dept = flight_objects[i][1].dept
          /\ flight_objects'[i][1].dest = flight_objects[i][1].dest
          /\ flight_objects'[i][1].aircraft = flight_objects[i][1].aircraft]_importVars

C18_Witness ==
  /\ ~repeat /\ pc = "loop" /\ processed = 2
  /\ Len(flight_objects) = 1
  /\ report = Seated(<<"1", "B">>)
  /\ item # None /\ item[1].aircraft = "Boeing777"
  /\ flight_objects[1][1].aircraft.type = "AirbusA319"
  /\ flight_objects[1][2] = item[1].number

====
